---------------------------- MODULE Spec2Model ----------------------------
(***************************************************************************)
(* Reducer / dispatch state-update core of more-react-concepts.            *)
(*                                                                         *)
(* A store is what useReducer(reducer, initialState) builds: the committed *)
(* state, and the queue of updaters that dispatch() hands to setState and  *)
(* that the next render folds into the state.  The reducers are the pure   *)
(* functions of TasksContext.jsx, MessengerReducer.jsx and App.jsx.        *)
(***************************************************************************)
EXTENDS Integers, Sequences, FiniteSets, TLC

VARIABLES
    kind,       \* which reducer the store was built with
    state,      \* the state the last render committed (useState's value)
    queue,      \* actions dispatched since the last render, oldest first
    mounted,    \* FALSE once a render has thrown: the component tree is gone
    error,      \* the last error raised, and by which operation
    hist,       \* history: every action handed to dispatch, in call order
    applied,    \* history: how many actions of hist renders have committed
    dropped,    \* history: how many actions of hist a failed render discarded
    renders,    \* history: how many renders have committed
    nextId,     \* the id counter (let nextId = 3)
    handed,     \* history: the ids the add handlers have taken from nextId
    rWhich,     \* reducer call: which tasksReducer was called ("none": not yet)
    rIn,        \* reducer call: the object given as state argument, as it is now
    rAction,    \* reducer call: the action argument
    rOut,       \* reducer call: what the call returned or threw
    seen,       \* history: the re-renders of the readers, in order, each with
                \* the state it was given
    reentered   \* history: how many dispatches were made while a render ran

storeVars == <<kind, state, queue, mounted, error, hist, applied, dropped, renders>>
callVars == <<rWhich, rIn, rAction, rOut>>
vars == <<storeVars, nextId, handed, callVars, seen, reentered>>

----------------------------------------------------------------------------
(* Bounds of the model *)

\* the most calls of dispatch in one behaviour
MaxDispatch == 3
\* the largest task id a caller puts in an action
MaxId == 3
\* the longest task list handed to a reducer call
MaxLen == 3

(* Program constants *)

\* let nextId = 3
NextIdInit == 3
\* useReducer(counterReducer, { age: 42 })
InitialAge == 42

----------------------------------------------------------------------------
(* Values *)

\* what a JavaScript function returns when it falls off its end
Undefined == [undefined |-> TRUE]

\* a normal return, and a thrown Error
Ok(v) == [ok |-> TRUE, val |-> v]
Throw(msg) == [ok |-> FALSE, err |-> msg]

NoError == [where |-> "none", msg |-> ""]

\* texts a caller types
Texts == {"x"}

\* ids a caller names: the last seeded task and the fresh ids from nextId on
ActionIds == (NextIdInit - 1)..MaxId

\* TasksContext.jsx
initialTasks ==
    << [id |-> 0, text |-> "Philosopher's Path", done |-> TRUE],
       [id |-> 1, text |-> "Visit the temple", done |-> FALSE],
       [id |-> 2, text |-> "Drink matcha", done |-> FALSE] >>

\* App.jsx: the list of TaskApp and TaskAppOne
initialTasksApp ==
    << [id |-> 0, text |-> "Visit Kafka Museum", done |-> TRUE],
       [id |-> 1, text |-> "Watch a puppet show", done |-> FALSE],
       [id |-> 2, text |-> "Lennon Wall pic", done |-> FALSE] >>

initialState ==
    [selectedId |-> 0,
     messages |-> (0 :> "Hello, Taylor" @@ 1 :> "Hello, Alice" @@ 2 :> "Hello, Bob")]

contacts ==
    << [id |-> 0, name |-> "Taylor", email |-> "taylor@mail.com"],
       [id |-> 1, name |-> "Alice", email |-> "alice@mail.com"],
       [id |-> 2, name |-> "Bob", email |-> "bob@mail.com"] >>

ContactIds == {contacts[i].id : i \in 1..Len(contacts)}

----------------------------------------------------------------------------
(* Object helper of the reducers *)

\* { ...messages, [key]: value }
Spread(m, key, value) ==
    [k \in DOMAIN m \cup {key} |-> IF k = key THEN value ELSE m[k]]

----------------------------------------------------------------------------
(* Reducers *)

\* a "changed" branch that merges the new fields into the old record
tasksReducerMerging(tasks, action) ==
    CASE action.type = "added" ->
           Ok(tasks \o << [id |-> action.id, text |-> action.text, done |-> FALSE] >>)
      [] action.type = "changed" ->
           Ok([i \in 1..Len(tasks) |->
                 IF tasks[i].id = action.task.id
                 THEN [f \in DOMAIN tasks[i] \cup DOMAIN action.task |->
                          IF f \in DOMAIN action.task THEN action.task[f] ELSE tasks[i][f]]
                 ELSE tasks[i]])
      [] action.type = "deleted" ->
           Ok(SelectSeq(tasks, LAMBDA t : t.id # action.id))
      [] OTHER -> Throw("Unknown action: " \o action.type)

\* an "added" branch that refuses an id the list already holds
tasksReducerRejectingDuplicates(tasks, action) ==
    CASE action.type = "added" ->
           IF \E i \in 1..Len(tasks) : tasks[i].id = action.id
           THEN Throw("DuplicateId")
           ELSE Ok(tasks \o << [id |-> action.id, text |-> action.text, done |-> FALSE] >>)
      [] action.type = "changed" ->
           Ok([i \in 1..Len(tasks) |->
                 IF tasks[i].id = action.task.id THEN action.task ELSE tasks[i]])
      [] action.type = "deleted" ->
           Ok(SelectSeq(tasks, LAMBDA t : t.id # action.id))
      [] OTHER -> Throw("Unknown action: " \o action.type)

\* a "changed" branch that appends the task when no task has its id
tasksReducerUpsert(tasks, action) ==
    CASE action.type = "added" ->
           Ok(tasks \o << [id |-> action.id, text |-> action.text, done |-> FALSE] >>)
      [] action.type = "changed" ->
           IF \E i \in 1..Len(tasks) : tasks[i].id = action.task.id
           THEN Ok([i \in 1..Len(tasks) |->
                      IF tasks[i].id = action.task.id THEN action.task ELSE tasks[i]])
           ELSE Ok(Append(tasks, action.task))
      [] action.type = "deleted" ->
           Ok(SelectSeq(tasks, LAMBDA t : t.id # action.id))
      [] OTHER -> Throw("Unknown action: " \o action.type)

\* a "deleted" branch that removes only the first task with the id
tasksReducerDeletingFirst(tasks, action) ==
    CASE action.type = "added" ->
           Ok(tasks \o << [id |-> action.id, text |-> action.text, done |-> FALSE] >>)
      [] action.type = "changed" ->
           Ok([i \in 1..Len(tasks) |->
                 IF tasks[i].id = action.task.id THEN action.task ELSE tasks[i]])
      [] action.type = "deleted" ->
           LET hits == {i \in 1..Len(tasks) : tasks[i].id = action.id}
               first == IF hits = {} THEN 0 ELSE CHOOSE i \in hits : \A j \in hits : i <= j
           IN  Ok([i \in 1..(Len(tasks) - (IF first = 0 THEN 0 ELSE 1)) |->
                     IF first = 0 \/ i < first THEN tasks[i] ELSE tasks[i + 1]])
      [] OTHER -> Throw("Unknown action: " \o action.type)

\* an "added" branch that puts the new task first
tasksReducerPrepending(tasks, action) ==
    CASE action.type = "added" ->
           Ok(<< [id |-> action.id, text |-> action.text, done |-> FALSE] >> \o tasks)
      [] action.type = "changed" ->
           Ok([i \in 1..Len(tasks) |->
                 IF tasks[i].id = action.task.id THEN action.task ELSE tasks[i]])
      [] action.type = "deleted" ->
           Ok(SelectSeq(tasks, LAMBDA t : t.id # action.id))
      [] OTHER -> Throw("Unknown action: " \o action.type)

\* a "deleted" branch whose filter keeps the tasks with the id
tasksReducerDeletingOthers(tasks, action) ==
    CASE action.type = "added" ->
           Ok(tasks \o << [id |-> action.id, text |-> action.text, done |-> FALSE] >>)
      [] action.type = "changed" ->
           Ok([i \in 1..Len(tasks) |->
                 IF tasks[i].id = action.task.id THEN action.task ELSE tasks[i]])
      [] action.type = "deleted" ->
           Ok(SelectSeq(tasks, LAMBDA t : t.id = action.id))
      [] OTHER -> Throw("Unknown action: " \o action.type)

\* TasksContext.jsx
tasksReducer(tasks, action) ==
    CASE action.type = "added" ->
           Ok(tasks \o << [id |-> action.id, text |-> action.text, done |-> FALSE] >>)
      [] action.type = "changed" ->
           Ok([i \in 1..Len(tasks) |->
                 IF tasks[i].id = action.task.id THEN action.task ELSE tasks[i]])
      [] action.type = "deleted" ->
           Ok(SelectSeq(tasks, LAMBDA t : t.id # action.id))
      [] OTHER -> Throw("Unknown action: " \o action.type)

\* App.jsx: the "added" branch takes the id from the module's counter, which
\* it advances, and not from the action; n is the counter, nextId its new value
tasksReducerApp(tasks, action, n) ==
    CASE action.type = "added" ->
           [ok |-> TRUE, nextId |-> n + 1,
            val |-> tasks \o << [id |-> n, text |-> action.text, done |-> FALSE] >>]
      [] action.type = "changed" ->
           [ok |-> TRUE, nextId |-> n,
            val |-> [i \in 1..Len(tasks) |->
                       IF tasks[i].id = action.task.id THEN action.task ELSE tasks[i]]]
      [] action.type = "deleted" ->
           [ok |-> TRUE, nextId |-> n,
            val |-> SelectSeq(tasks, LAMBDA t : t.id # action.id)]
      [] OTHER -> [ok |-> FALSE, nextId |-> n, err |-> "Unknown action: " \o action.type]

\* a "changed_selection" branch that also blanks the draft of the contact
\* switched to (message: "")
messengerReducerClearingOnSwitch(s, action) ==
    CASE action.type = "changed_selection" ->
           Ok([selectedId |-> action.contactId,
               messages |-> Spread(s.messages, action.contactId, "")])
      [] action.type = "edited_message" ->
           Ok([s EXCEPT !.messages = Spread(s.messages, s.selectedId, action.message)])
      [] action.type = "sent_message" ->
           Ok([s EXCEPT !.messages = Spread(s.messages, s.selectedId, "")])
      [] OTHER -> Throw("Unknown action: " \o action.type)

\* an "edited_message" branch that keeps one message for all contacts
messengerReducerSharedDraft(s, action) ==
    CASE action.type = "changed_selection" ->
           Ok([s EXCEPT !.selectedId = action.contactId])
      [] action.type = "edited_message" ->
           Ok([s EXCEPT !.messages = [k \in DOMAIN s.messages |-> action.message]])
      [] action.type = "sent_message" ->
           Ok([s EXCEPT !.messages = Spread(s.messages, s.selectedId, "")])
      [] OTHER -> Throw("Unknown action: " \o action.type)

\* a "sent_message" branch that blanks every draft
messengerReducerSendClearingAll(s, action) ==
    CASE action.type = "changed_selection" ->
           Ok([s EXCEPT !.selectedId = action.contactId])
      [] action.type = "edited_message" ->
           Ok([s EXCEPT !.messages = Spread(s.messages, s.selectedId, action.message)])
      [] action.type = "sent_message" ->
           Ok([s EXCEPT !.messages = [k \in DOMAIN s.messages |-> ""]])
      [] OTHER -> Throw("Unknown action: " \o action.type)

\* a "sent_message" branch that removes the selected contact's entry
messengerReducerSendDeletingDraft(s, action) ==
    CASE action.type = "changed_selection" ->
           Ok([s EXCEPT !.selectedId = action.contactId])
      [] action.type = "edited_message" ->
           Ok([s EXCEPT !.messages = Spread(s.messages, s.selectedId, action.message)])
      [] action.type = "sent_message" ->
           Ok([s EXCEPT !.messages =
                 [c \in DOMAIN s.messages \ {s.selectedId} |-> s.messages[c]]])
      [] OTHER -> Throw("Unknown action: " \o action.type)

\* an "edited_message" branch that adds the typed text to the draft
messengerReducerAppendingDraft(s, action) ==
    CASE action.type = "changed_selection" ->
           Ok([s EXCEPT !.selectedId = action.contactId])
      [] action.type = "edited_message" ->
           Ok([s EXCEPT !.messages =
                 Spread(s.messages, s.selectedId, s.messages[s.selectedId] \o action.message)])
      [] action.type = "sent_message" ->
           Ok([s EXCEPT !.messages = Spread(s.messages, s.selectedId, "")])
      [] OTHER -> Throw("Unknown action: " \o action.type)

\* a "changed_selection" branch that takes the contact's position for its id
messengerReducerSelectingPosition(s, action) ==
    CASE action.type = "changed_selection" ->
           Ok([s EXCEPT !.selectedId = action.contactId + 1])
      [] action.type = "edited_message" ->
           Ok([s EXCEPT !.messages = Spread(s.messages, s.selectedId, action.message)])
      [] action.type = "sent_message" ->
           Ok([s EXCEPT !.messages = Spread(s.messages, s.selectedId, "")])
      [] OTHER -> Throw("Unknown action: " \o action.type)

messengerReducer(s, action) ==
    CASE action.type = "changed_selection" ->
           Ok([s EXCEPT !.selectedId = action.contactId])
      [] action.type = "edited_message" ->
           Ok([s EXCEPT !.messages = Spread(s.messages, s.selectedId, action.message)])
      [] action.type = "sent_message" ->
           Ok([s EXCEPT !.messages = Spread(s.messages, s.selectedId, "")])
      [] OTHER -> Throw("Unknown action: " \o action.type)

\* a "set_count" branch that adds the value to the count
reducerSetAdding(s, action) ==
    CASE action.type = "incremented_count" -> Ok([count |-> s.count + 1])
      [] action.type = "decremented_count" -> Ok([count |-> s.count - 1])
      [] action.type = "set_count" -> Ok([count |-> s.count + action.value])
      [] OTHER -> Throw("unknown action: " \o action.type)

\* a "decremented_count" branch copied from the increment
reducerDecrementAdding(s, action) ==
    CASE action.type = "incremented_count" -> Ok([count |-> s.count + 1])
      [] action.type = "decremented_count" -> Ok([count |-> s.count + 1])
      [] action.type = "set_count" -> Ok([count |-> action.value])
      [] OTHER -> Throw("unknown action: " \o action.type)

reducer(s, action) ==
    CASE action.type = "incremented_count" -> Ok([count |-> s.count + 1])
      [] action.type = "decremented_count" -> Ok([count |-> s.count - 1])
      [] action.type = "set_count" -> Ok([count |-> action.value])
      [] OTHER -> Throw("unknown action: " \o action.type)

\* no default branch: any other action type falls off the end of the function;
\* reading state.age of an undefined state is a TypeError
counterReducer(s, action) ==
    IF action.type = "incremented_age"
    THEN IF s = Undefined THEN Throw("TypeError") ELSE Ok([age |-> s.age + 1])
    ELSE Ok(Undefined)

----------------------------------------------------------------------------
(* What a reducer call leaves in the object it was given *)

\* an "added" branch written with tasks.push(...)
tasksReducerLeavesPushed(tasks, action) ==
    IF action.type = "added"
    THEN tasks \o << [id |-> action.id, text |-> action.text, done |-> FALSE] >>
    ELSE tasks

\* the tasks array after tasksReducer(tasks, action), of either file:
\* [...tasks, task], tasks.map and tasks.filter build a new array, and the
\* default branch throws before touching anything
tasksReducerLeaves(tasks, action) ==
    CASE action.type = "added" -> tasks
      [] action.type = "changed" -> tasks
      [] action.type = "deleted" -> tasks
      [] OTHER -> tasks

\* the state object after messengerReducer(state, action): every branch
\* returns a new object literal, with a new messages object where one is written
messengerReducerLeaves(s, action) ==
    CASE action.type = "changed_selection" -> s
      [] action.type = "edited_message" -> s
      [] action.type = "sent_message" -> s
      [] OTHER -> s

----------------------------------------------------------------------------
(* The stores the components build *)

Kinds == {"tasks", "messenger", "count", "age"}

\* the reducer argument of useReducer
Reduce(k, s, action) ==
    CASE k = "tasks" -> tasksReducer(s, action)
      [] k = "messenger" -> messengerReducer(s, action)
      [] k = "count" -> reducer(s, action)
      [] k = "age" -> counterReducer(s, action)

\* the initialState argument of useReducer
InitialOf(k) ==
    CASE k = "tasks" -> initialTasks
      [] k = "messenger" -> initialState
      [] k = "count" -> [count |-> 0]
      [] k = "age" -> [age |-> InitialAge]

Bogus == [type |-> "bogus"]

\* the actions the callers of a store dispatch, and one of no known type
ActionsOf(k) ==
    CASE k = "tasks" ->
           {[type |-> "added", id |-> i, text |-> t] : i \in ActionIds, t \in Texts}
           \cup {[type |-> "changed", task |-> [id |-> i, text |-> t, done |-> d]] :
                    i \in ActionIds, t \in Texts, d \in BOOLEAN}
           \cup {[type |-> "deleted", id |-> i] : i \in ActionIds}
           \cup {Bogus}
      [] k = "messenger" ->
           {[type |-> "changed_selection", contactId |-> c] : c \in ContactIds}
           \cup {[type |-> "edited_message", message |-> t] : t \in Texts}
           \cup {[type |-> "sent_message"], Bogus}
      [] k = "count" ->
           {[type |-> "incremented_count"], [type |-> "decremented_count"], Bogus}
           \cup {[type |-> "set_count", value |-> v] : v \in {0, MaxId}}
      [] k = "age" ->
           {[type |-> "incremented_age"], Bogus}

----------------------------------------------------------------------------
(* useReducer: dispatch and render *)

\* a dispatch that runs the reducer on the handler's state at once and lets its
\* error escape to the caller
dispatchEager(q, s, k, action) ==
    LET r == Reduce(k, s, action)
    IN  [queue |-> Append(q, action),
         threw |-> IF r.ok THEN NoError ELSE [where |-> "dispatch", msg |-> r.err]]

\* a dispatch that puts the newest updater first
dispatchPrepend(q, s, k, action) ==
    [queue |-> <<action>> \o q, threw |-> NoError]

\* dispatch(action): setState((s) => reducer(s, action)) queues the updater and
\* returns; the reducer is not run for its result here
dispatch(q, s, k, action) ==
    [queue |-> Append(q, action), threw |-> NoError]

\* a render whose updaters all start from the initial state
RECURSIVE ProcessQueueFromInitial(_, _, _, _)
ProcessQueueFromInitial(k, s, q, n) ==
    IF q = <<>> THEN [ok |-> TRUE, val |-> s, n |-> n]
    ELSE LET r == Reduce(k, InitialOf(k), Head(q))
         IN  IF r.ok THEN ProcessQueueFromInitial(k, r.val, Tail(q), n + 1)
             ELSE [ok |-> FALSE, err |-> r.err, n |-> n, val |-> s]

\* a render that runs only the oldest queued updater and forgets the others
ProcessQueueOldestOnly(k, s, q, n) ==
    IF q = <<>> THEN [ok |-> TRUE, val |-> s, n |-> n]
    ELSE LET r == Reduce(k, s, Head(q))
         IN  IF r.ok THEN [ok |-> TRUE, val |-> r.val, n |-> n + 1]
             ELSE [ok |-> FALSE, err |-> r.err, n |-> n, val |-> s]

\* a render runs the queued updaters in order, each on the result of the one
\* before; an updater that throws aborts the render (val: the state reached
\* before the throw, which is not committed)
RECURSIVE ProcessQueue(_, _, _, _)
ProcessQueue(k, s, q, n) ==
    IF q = <<>> THEN [ok |-> TRUE, val |-> s, n |-> n]
    ELSE LET r == Reduce(k, s, Head(q))
         IN  IF r.ok THEN ProcessQueue(k, r.val, Tail(q), n + 1)
             ELSE [ok |-> FALSE, err |-> r.err, n |-> n, val |-> s]

\* the readers of a store, in the order they mounted: under a TasksProvider
\* the provider itself and the consumer of TasksContext, TaskList; elsewhere
\* the one component that called useReducer or useState
Readers(k) ==
    IF k = "TasksProvider" THEN <<"TasksProvider", "TaskList">> ELSE <<"owner">>

\* Object.is(old, new) of two state values: every branch of every reducer
\* builds a new array or object, so only the undefined counterReducer falls
\* through to is the same value twice
ObjectIs(k, old, new) == k = "age" /\ old = Undefined /\ new = Undefined

\* a commit that hands the readers the state of before the update
RerenderWithPrevious(log, k, old, new) ==
    IF ObjectIs(k, old, new) THEN log
    ELSE log \o [i \in 1..Len(Readers(k)) |-> [reader |-> Readers(k)[i], value |-> old]]

\* a commit that re-renders the readers last mounted first
RerenderNewestFirst(log, k, old, new) ==
    IF ObjectIs(k, old, new) THEN log
    ELSE log \o [i \in 1..Len(Readers(k)) |->
                   [reader |-> Readers(k)[Len(Readers(k)) + 1 - i], value |-> new]]

\* a commit that skips the re-render when the new state has the same content
RerenderSkippingEqual(log, k, old, new) ==
    IF old = new THEN log
    ELSE log \o [i \in 1..Len(Readers(k)) |-> [reader |-> Readers(k)[i], value |-> new]]

\* a commit that re-renders only the component holding the state
RerenderOwnerOnly(log, k, old, new) ==
    IF ObjectIs(k, old, new) THEN log
    ELSE Append(log, [reader |-> Readers(k)[1], value |-> new])

\* the commit of a render: React re-renders each reader once, in tree order,
\* with the new state, unless the new state is the very same value
Rerender(log, k, old, new) ==
    IF ObjectIs(k, old, new) THEN log
    ELSE log \o [i \in 1..Len(Readers(k)) |-> [reader |-> Readers(k)[i], value |-> new]]

\* no reducer call is on record
NoCall ==
    /\ rWhich = "none"
    /\ rIn = <<>>
    /\ rAction = [type |-> "none"]
    /\ rOut = Ok(<<>>)

Init ==
    /\ kind \in Kinds
    /\ state = InitialOf(kind)
    /\ queue = <<>>
    /\ mounted = TRUE
    /\ error = NoError
    /\ hist = <<>>
    /\ applied = 0
    /\ dropped = 0
    /\ renders = 0
    /\ nextId = NextIdInit
    /\ handed = <<>>
    /\ NoCall
    /\ seen = <<>>
    /\ reentered = 0

\* the count store is driven one dispatch further than the others: three
\* increments and a decrement
DispatchBound(k) == IF k = "count" THEN MaxDispatch + 1 ELSE MaxDispatch

\* a dispatch that runs the reducer and re-renders the readers before it returns
DispatchApplying(action) ==
    /\ Len(hist) < DispatchBound(kind)
    /\ mounted
    /\ queue = <<>>
    /\ LET r == Reduce(kind, state, action)
       IN  /\ r.ok
           /\ state' = r.val
           /\ seen' = Rerender(seen, kind, state, r.val)
    /\ hist' = Append(hist, action)
    /\ applied' = applied + 1
    /\ renders' = renders + 1
    /\ UNCHANGED <<kind, queue, mounted, error, dropped, nextId, handed,
                   callVars, reentered>>

Dispatch(action) ==
    /\ Len(hist) < DispatchBound(kind)
    /\ LET d == dispatch(queue, state, kind, action)
       IN  /\ queue' = d.queue
           /\ error' = IF d.threw = NoError THEN error ELSE d.threw
    /\ hist' = Append(hist, action)
    /\ UNCHANGED <<kind, state, mounted, applied, dropped, renders, nextId,
                   handed, callVars, seen, reentered>>

\* the render after some dispatches, every updater returning
RenderCommit ==
    /\ mounted
    /\ queue # <<>>
    /\ LET r == ProcessQueue(kind, state, queue, 0)
       IN  /\ r.ok
           /\ state' = r.val
           /\ applied' = applied + r.n
    /\ queue' = <<>>
    /\ renders' = renders + 1
    /\ seen' = Rerender(seen, kind, state, state')
    /\ UNCHANGED <<kind, mounted, error, hist, dropped, nextId, handed,
                   callVars, reentered>>

\* a failed render that commits what the updaters before the throw produced and
\* keeps the component mounted
RenderThrowSwallowed ==
    /\ mounted
    /\ queue # <<>>
    /\ LET r == ProcessQueue(kind, state, queue, 0)
       IN  /\ ~r.ok
           /\ error' = [where |-> "render", msg |-> r.err]
           /\ state' = r.val
           /\ applied' = applied + r.n
           /\ dropped' = dropped + (Len(queue) - r.n)
    /\ queue' = <<>>
    /\ UNCHANGED <<kind, mounted, hist, renders, nextId, handed, callVars,
                   seen, reentered>>

\* the render in which an updater throws: nothing is committed, and with no
\* error boundary in the tree React unmounts it
RenderThrow ==
    /\ mounted
    /\ queue # <<>>
    /\ LET r == ProcessQueue(kind, state, queue, 0)
       IN  /\ ~r.ok
           /\ error' = [where |-> "render", msg |-> r.err]
    /\ mounted' = FALSE
    /\ dropped' = dropped + Len(queue)
    /\ queue' = <<>>
    /\ UNCHANGED <<kind, state, hist, applied, renders, nextId, handed,
                   callVars, seen, reentered>>

Next ==
    \/ \E action \in ActionsOf(kind) : Dispatch(action)
    \/ RenderCommit
    \/ RenderThrow

Spec == Init /\ [][Next]_vars

\* React schedules a render after every setState: a render that stays due is
\* eventually run
InitFair ==
    /\ Init
    /\ kind \in {"messenger", "count"}

SpecFair ==
    InitFair /\ [][Next]_vars /\ WF_vars(RenderCommit) /\ WF_vars(RenderThrow)

----------------------------------------------------------------------------
(* A component that dispatches while it renders *)

\* a render that ignores the dispatch made while it runs
RenderDispatchingDropped(action) ==
    /\ mounted
    /\ queue # <<>>
    /\ Len(hist) < DispatchBound(kind)
    /\ LET r == ProcessQueue(kind, state, queue, 0)
       IN  /\ r.ok
           /\ state' = r.val
           /\ applied' = applied + r.n
    /\ queue' = <<>>
    /\ hist' = Append(hist, action)
    /\ renders' = renders + 1
    /\ reentered' = reentered + 1
    /\ seen' = Rerender(seen, kind, state, state')
    /\ UNCHANGED <<kind, mounted, error, dropped, nextId, handed, callVars>>

\* a render during which dispatch(action) is called: the call queues the updater
\* like any other and returns, the render commits what was queued before it,
\* and the new updater waits for the render the dispatch causes
RenderDispatching(action) ==
    /\ mounted
    /\ queue # <<>>
    /\ Len(hist) < DispatchBound(kind)
    /\ LET r == ProcessQueue(kind, state, queue, 0)
           d == dispatch(<<>>, r.val, kind, action)
       IN  /\ r.ok
           /\ state' = r.val
           /\ applied' = applied + r.n
           /\ queue' = d.queue
           /\ error' = IF d.threw = NoError THEN error ELSE d.threw
    /\ hist' = Append(hist, action)
    /\ renders' = renders + 1
    /\ reentered' = reentered + 1
    /\ seen' = Rerender(seen, kind, state, state')
    /\ UNCHANGED <<kind, mounted, dropped, nextId, handed, callVars>>

InitReentrant ==
    /\ Init
    /\ kind \in {"messenger", "age"}

NextReentrant ==
    \/ \E action \in ActionsOf(kind) : Dispatch(action)
    \/ \E action \in ActionsOf(kind) : RenderDispatching(action)
    \/ RenderCommit
    \/ RenderThrow

SpecReentrant == InitReentrant /\ [][NextReentrant]_vars

----------------------------------------------------------------------------
(* The two messenger stores of App: the one App builds itself, and the one *)
(* built by the Messenger component that App defines in its body and mounts *)

StoreNames == {"App", "Messenger"}

\* the events of ContactList and Chat
MessengerEvents == ActionsOf("messenger") \ {Bogus}

InitStores ==
    /\ kind = "messenger"
    /\ state = [st \in StoreNames |-> initialState]
    /\ queue = [st \in StoreNames |-> <<>>]
    /\ mounted = TRUE
    /\ error = NoError
    /\ hist = <<>>
    /\ applied = 0
    /\ dropped = 0
    /\ renders = 0
    /\ nextId = NextIdInit
    /\ handed = <<>>
    /\ NoCall
    /\ seen = <<>>
    /\ reentered = 0

\* an event of the ContactList or Chat wired to the dispatch of store st
DispatchTo(st, action) ==
    /\ Len(hist) < MaxDispatch
    /\ queue' = [queue EXCEPT ![st] = dispatch(queue[st], state[st], kind, action).queue]
    /\ hist' = Append(hist, [store |-> st, action |-> action])
    /\ UNCHANGED <<kind, state, mounted, error, applied, dropped, renders, nextId, handed,
                   callVars, seen, reentered>>

\* the render of App after a dispatch to its store: the body of App runs again
\* and declares function Messenger anew, so React takes <Messenger /> for a
\* different component, unmounts the old one with its state and pending updates
\* and mounts a new one, whose useReducer starts from initialState
RenderApp ==
    /\ mounted
    /\ queue["App"] # <<>>
    /\ LET r == ProcessQueue(kind, state["App"], queue["App"], 0)
       IN  /\ r.ok
           /\ state' = [st \in StoreNames |-> IF st = "App" THEN r.val ELSE initialState]
           /\ applied' = applied + r.n
    /\ dropped' = dropped + Len(queue["Messenger"])
    /\ queue' = [st \in StoreNames |-> <<>>]
    /\ renders' = renders + 1
    /\ UNCHANGED <<kind, mounted, error, hist, nextId, handed, callVars, seen, reentered>>

\* the render of Messenger alone after a dispatch to its store
RenderMessenger ==
    /\ mounted
    /\ queue["App"] = <<>>
    /\ queue["Messenger"] # <<>>
    /\ LET r == ProcessQueue(kind, state["Messenger"], queue["Messenger"], 0)
       IN  /\ r.ok
           /\ state' = [state EXCEPT !["Messenger"] = r.val]
           /\ applied' = applied + r.n
    /\ queue' = [queue EXCEPT !["Messenger"] = <<>>]
    /\ renders' = renders + 1
    /\ UNCHANGED <<kind, mounted, error, hist, dropped, nextId, handed, callVars, seen,
                   reentered>>

NextStores ==
    \/ \E st \in StoreNames, action \in MessengerEvents : DispatchTo(st, action)
    \/ RenderApp
    \/ RenderMessenger

SpecStores == InitStores /\ [][NextStores]_vars

----------------------------------------------------------------------------
(* Properties of the store *)

\* the left fold of the reducer over a sequence of actions
RECURSIVE FoldActions(_, _, _)
FoldActions(k, s, as) ==
    IF as = <<>> THEN s
    ELSE FoldActions(k, Reduce(k, s, Head(as)).val, Tail(as))

\* the action types a reducer has a branch for
KnownTypes(k) ==
    CASE k = "tasks" -> {"added", "changed", "deleted"}
      [] k = "messenger" -> {"changed_selection", "edited_message", "sent_message"}
      [] k = "count" -> {"incremented_count", "decremented_count", "set_count"}
      [] k = "age" -> {"incremented_age"}

HoldsUnknown(q) == \E i \in 1..Len(q) : q[i].type \notin KnownTypes(kind)

\* C1: the store holds its initial state until an action is dispatched, and
\* the render that processes one dispatched action a from state s commits
\* exactly reducer(s, a).
C1_StoreHoldsReducerResult ==
    /\ [](hist = <<>> => state = InitialOf(kind))
    /\ [][applied' = applied + 1 =>
            state' = Reduce(kind, state, hist[applied + 1]).val]_vars

C1_Witness ==
    /\ applied = 1
    /\ renders = 1
    /\ state # InitialOf(kind)
    /\ state = Reduce(kind, InitialOf(kind), hist[1]).val

\* C2: actions are applied one at a time in dispatch order: while no update
\* has failed, the committed state is the reducer folded over the dispatched
\* actions that have been rendered, and the queue holds exactly the remaining
\* ones in dispatch order (none lost, duplicated or reordered), also when
\* several dispatches precede one render.
C2_AppliedInDispatchOrder ==
    mounted =>
        /\ state = FoldActions(kind, InitialOf(kind), SubSeq(hist, 1, applied))
        /\ queue = SubSeq(hist, applied + 1, Len(hist))

C2_Witness ==
    /\ renders = 1
    /\ applied = 3
    /\ hist[1] # hist[2]
    /\ state # InitialOf(kind)
    /\ state # FoldActions(kind, InitialOf(kind), <<hist[2], hist[1], hist[3]>>)

\* C3: a render whose only queued action has a type the store's reducer does
\* not recognize leaves the committed state unchanged (task, messenger,
\* count and age reducers alike).
C3_UnknownActionKeepsState ==
    [][(mounted /\ queue = <<Bogus>> /\ queue' = <<>>) => state' = state]_vars

\* C4 as stated: the dispatch call for an action the reducer throws on is
\* itself the call that fails.
C4_DispatchCallFails ==
    [][(hist' = Append(hist, Bogus) /\ ~Reduce(kind, state, Bogus).ok)
         => error'.where = "dispatch"]_vars

\* C4 amended: dispatch never raises, whatever the action's type; an
\* unrecognized action's error is raised later, by the render that processes
\* the queued update, and is raised by the render of every store whose
\* reducer has a throwing default branch.
C4_UnknownActionFailsAtRender ==
    [][/\ (hist' # hist => error' = error)
       /\ (error' # error => error'.where = "render" /\ queue # <<>> /\ queue' = <<>>)
       /\ (mounted /\ kind # "age" /\ queue # <<>> /\ queue' = <<>> /\ HoldsUnknown(queue)
             => error'.where = "render" /\ error # error')]_vars

C4_Witness ==
    /\ error.where = "render"
    /\ kind = "tasks"
    /\ hist = <<Bogus>>

\* C5 as stated: after a failure the store remains usable: valid actions
\* dispatched afterwards can still be committed by a render.
C5_UsableAfterFailure ==
    (error # NoError /\ queue # <<>> /\ ~HoldsUnknown(queue)) => ENABLED RenderCommit

\* C5 amended: the render in which the reducer throws commits nothing (the
\* state stays what it was before that render), but the store does not stay
\* usable: the component is unmounted and no action dispatched afterwards is
\* ever applied.
C5_FailureKeepsStateButUnmounts ==
    [][/\ (error' # error => state' = state /\ applied' = applied /\ ~mounted')
       /\ (~mounted => state' = state /\ applied' = applied /\ ~mounted')]_vars

C5_Witness ==
    /\ ~mounted
    /\ applied > 0
    /\ queue # <<>>
    /\ ~HoldsUnknown(queue)
    /\ state = FoldActions(kind, InitialOf(kind), SubSeq(hist, 1, applied))

\* C22 as stated: dispatch is synchronous: when dispatch(a) returns without
\* failure the stored state has been replaced by reducer(current, a), the
\* readers have been notified, and the action is not pending.
C22_DispatchIsSynchronous ==
    [][(hist' # hist /\ Reduce(kind, state, hist'[Len(hist')]).ok) =>
          /\ state' = Reduce(kind, state, hist'[Len(hist')]).val
          /\ Len(seen') > Len(seen)
          /\ queue' = <<>>]_vars

\* C22 amended: dispatch only queues: when dispatch(a) returns the stored
\* state is unchanged, no reader has been re-rendered and a is pending at the
\* end of the queue; the state is replaced and the readers are re-rendered
\* only by the next render, which empties the queue.
C22_DispatchOnlyQueues ==
    [][/\ hist' # hist =>
            /\ state' = state
            /\ seen' = seen
            /\ applied' = applied
            /\ queue' = Append(queue, hist'[Len(hist')])
       /\ (state' # state \/ seen' # seen) =>
            /\ hist' = hist
            /\ queue # <<>>
            /\ queue' = <<>>]_vars

C22_Witness ==
    /\ mounted
    /\ Len(queue) = 2
    /\ seen = <<>>
    /\ state = InitialOf(kind)
    /\ Reduce(kind, state, queue[1]).ok
    /\ Reduce(kind, state, queue[1]).val # state

\* how many entries of the log from position from on are re-renders of reader
\* with value
RerendersOf(log, from, reader, value) ==
    Cardinality({i \in from..Len(log) : log[i] = [reader |-> reader, value |-> value]})

\* the names of the readers of the store
ReaderNames == {Readers(kind)[i] : i \in 1..Len(Readers(kind))}

\* C23 as stated: every dispatch that does not fail produces exactly one
\* notification to each subscriber: once nothing is pending, each reader has
\* been notified as many times as actions have been applied.
C23_OneNotificationPerDispatch ==
    (mounted /\ queue = <<>>) => Len(seen) = applied * Len(Readers(kind))

\* C23 amended: every render that processes the queued dispatches without
\* failure re-renders each reader exactly once with the resulting state,
\* however many dispatches it processed (updates are batched), also when the
\* resulting state is structurally equal to the previous one; only a result
\* that is the very same value (Object.is) is ignored.  A dispatch by itself
\* and a render in which the reducer throws re-render no one.
C23_OneRerenderPerRender ==
    [][/\ (renders' = renders + 1 /\ ~ObjectIs(kind, state, state')) =>
            /\ Len(seen') = Len(seen) + Len(Readers(kind))
            /\ SubSeq(seen', 1, Len(seen)) = seen
            /\ \A r \in ReaderNames : RerendersOf(seen', Len(seen) + 1, r, state') = 1
       /\ (renders' = renders + 1 /\ ObjectIs(kind, state, state')) => seen' = seen
       /\ (hist' # hist \/ error' # error) => seen' = seen]_vars

C23_Witness ==
    /\ renders = 1
    /\ applied = 2
    /\ state = InitialOf(kind)
    /\ seen = <<[reader |-> "owner", value |-> state]>>

\* C26 as stated: a dispatch invoked synchronously while the store is
\* processing (from a reducer or from a notification) fails fast with
\* ReentrantDispatch and is not taken up.
C26_ReentrantDispatchRejected ==
    [][reentered' # reentered =>
          /\ error' = [where |-> "dispatch", msg |-> "ReentrantDispatch"]
          /\ queue' = <<>>]_vars

\* C26 amended: a dispatch invoked while a render is in progress is not
\* rejected: it raises no error, its action is queued behind the ones the
\* render is processing and is applied after them by the next render, so the
\* committed state stays the fold of the dispatched actions in dispatch order.
C26_ReentrantDispatchQueued ==
    /\ [][reentered' # reentered =>
             /\ error' = error
             /\ queue' = <<hist'[Len(hist')]>>
             /\ applied' = applied + Len(queue)
             /\ state' = FoldActions(kind, state, queue)]_vars
    /\ [](mounted =>
             /\ state = FoldActions(kind, InitialOf(kind), SubSeq(hist, 1, applied))
             /\ queue = SubSeq(hist, applied + 1, Len(hist)))

C26_Witness ==
    /\ kind = "messenger"
    /\ reentered = 1
    /\ mounted
    /\ renders = 2
    /\ Len(hist) = 2
    /\ applied = 2
    /\ hist[1].type = "edited_message"
    /\ hist[2].type = "sent_message"
    /\ state # FoldActions(kind, InitialOf(kind), <<hist[1]>>)
    /\ state # FoldActions(kind, InitialOf(kind), <<hist[2], hist[1]>>)
    /\ state = FoldActions(kind, InitialOf(kind), hist)

AddedThenDeleted ==
    /\ kind = "tasks"
    /\ mounted
    /\ applied >= 2
    /\ hist[applied - 1].type = "added"
    /\ hist[applied].type = "deleted"
    /\ hist[applied].id = hist[applied - 1].id

\* the task list the two actions started from
ListBeforeLastTwo == FoldActions(kind, InitialOf(kind), SubSeq(hist, 1, applied - 2))

\* C13 as stated: from any task list T, added {id, text} followed by
\* deleted {id} yields a sequence equal to T.
C13_AddThenDeleteRoundTrip ==
    AddedThenDeleted => state = ListBeforeLastTwo

\* C13 amended: from any task list T that holds no task with that id,
\* added {id, text} followed by deleted {id} yields a sequence equal to T.
C13_AddThenDeleteRoundTripFreshId ==
    (AddedThenDeleted /\ \A i \in 1..Len(ListBeforeLastTwo) :
                            ListBeforeLastTwo[i].id # hist[applied].id)
        => state = ListBeforeLastTwo

C13_Witness ==
    /\ AddedThenDeleted
    /\ applied = 3
    /\ hist[1] = [type |-> "deleted", id |-> 2]
    /\ hist[2].id = 3
    /\ Len(state) = 2
    /\ state = ListBeforeLastTwo

----------------------------------------------------------------------------
(* Properties of the messenger store *)

\* a render of the messenger store that applies exactly one action, of the type
MessengerApplies(type) ==
    /\ kind = "messenger"
    /\ applied' = applied + 1
    /\ hist[applied + 1].type = type

\* C14: changed_selection {contactId} sets selectedId to contactId and
\* leaves the messages mapping as it was, for every contact id.
C14_SelectionKeepsDrafts ==
    [][MessengerApplies("changed_selection") =>
          /\ state'.selectedId = hist[applied + 1].contactId
          /\ state'.messages = state.messages]_vars

C14_Witness ==
    /\ kind = "messenger"
    /\ applied = 2
    /\ hist[1].type = "edited_message"
    /\ hist[2] = [type |-> "changed_selection", contactId |-> 1]
    /\ state.selectedId = 1
    /\ state.messages[0] = hist[1].message
    /\ state.messages[1] = initialState.messages[1]

\* C15: edited_message {message} sets messages[selectedId] to message and
\* leaves the entries of all other contact ids and selectedId unchanged.
C15_EditWritesSelectedDraft ==
    [][MessengerApplies("edited_message") =>
          /\ state'.selectedId = state.selectedId
          /\ DOMAIN state'.messages = DOMAIN state.messages
          /\ state'.messages[state.selectedId] = hist[applied + 1].message
          /\ \A c \in DOMAIN state.messages \ {state.selectedId} :
                state'.messages[c] = state.messages[c]]_vars

C15_Witness ==
    /\ kind = "messenger"
    /\ applied = 2
    /\ hist[1] = [type |-> "changed_selection", contactId |-> 1]
    /\ hist[2].type = "edited_message"
    /\ state.selectedId = 1
    /\ state.messages[1] = hist[2].message
    /\ state.messages[0] = initialState.messages[0]
    /\ state.messages[2] = initialState.messages[2]

\* C16: sent_message sets messages[selectedId] to the empty string and
\* leaves the drafts of all other contact ids and selectedId unchanged.
C16_SendClearsSelectedDraft ==
    [][MessengerApplies("sent_message") =>
          /\ state'.selectedId = state.selectedId
          /\ DOMAIN state'.messages = DOMAIN state.messages
          /\ state'.messages[state.selectedId] = ""
          /\ \A c \in DOMAIN state.messages \ {state.selectedId} :
                state'.messages[c] = state.messages[c]]_vars

C16_Witness ==
    /\ kind = "messenger"
    /\ applied = 1
    /\ hist[1].type = "sent_message"
    /\ state.selectedId = 0
    /\ state.messages[0] = ""
    /\ state.messages[1] = initialState.messages[1]
    /\ state.messages[2] = initialState.messages[2]

\* the draft of contact c after the actions as, sel being the selected contact
\* and draft the draft of c before them: only an edit or a send made while c
\* is selected writes it
RECURSIVE DraftAfter(_, _, _, _)
DraftAfter(c, sel, draft, as) ==
    IF as = <<>> THEN draft
    ELSE LET a == Head(as)
         IN  CASE a.type = "changed_selection" ->
                    DraftAfter(c, a.contactId, draft, Tail(as))
               [] a.type = "edited_message" ->
                    DraftAfter(c, sel, IF sel = c THEN a.message ELSE draft, Tail(as))
               [] a.type = "sent_message" ->
                    DraftAfter(c, sel, IF sel = c THEN "" ELSE draft, Tail(as))
               [] OTHER -> DraftAfter(c, sel, draft, Tail(as))

\* C17: over any sequence of actions of the messenger store the draft of a
\* contact c is written only by an edited_message or sent_message applied
\* while c is selected; every other action leaves it as it was.
C17_DraftIsolation ==
    kind = "messenger" =>
        \A c \in ContactIds :
            state.messages[c] =
                DraftAfter(c, initialState.selectedId, initialState.messages[c],
                           SubSeq(hist, 1, applied))

C17_Witness ==
    /\ kind = "messenger"
    /\ renders = 1
    /\ hist = << [type |-> "changed_selection", contactId |-> 1],
                 [type |-> "edited_message", message |-> "x"],
                 [type |-> "changed_selection", contactId |-> 2] >>
    /\ state = [selectedId |-> 2,
                messages |-> (0 :> "Hello, Taylor" @@ 1 :> "x" @@ 2 :> "Hello, Bob")]

\* C18: in every reachable state of the messenger store selectedId is a key
\* of the messages mapping, and the initial mapping has an entry for every
\* known contact id.
C18_SelectedIdIsKey ==
    kind = "messenger" =>
        /\ state.selectedId \in DOMAIN state.messages
        /\ ContactIds \subseteq DOMAIN InitialOf(kind).messages

C18_Witness ==
    /\ kind = "messenger"
    /\ applied = 2
    /\ hist[1] = [type |-> "changed_selection", contactId |-> 2]
    /\ hist[2].type = "edited_message"
    /\ state.selectedId = 2
    /\ DOMAIN state.messages = ContactIds

\* contacts.find((c) => c.id === state.selectedId) finds a contact
SelectedContactFound == \E i \in 1..Len(contacts) : contacts[i].id = state.selectedId

\* C34: for any sequence of messenger events (select a listed contact, edit
\* the draft, send), the keys of the messages mapping stay exactly the
\* contact ids, and the lookup of the selected contact in the contacts list
\* finds a contact.
C34_KeysAreContactIds ==
    kind = "messenger" =>
        /\ DOMAIN state.messages = {contacts[i].id : i \in 1..Len(contacts)}
        /\ SelectedContactFound

C34_Witness ==
    /\ kind = "messenger"
    /\ mounted
    /\ applied = 3
    /\ hist[1].type = "changed_selection"
    /\ hist[2].type = "edited_message"
    /\ hist[3].type = "sent_message"
    /\ state.selectedId = contacts[3].id
    /\ state.messages[state.selectedId] = ""
    /\ SelectedContactFound

\* the state of store st changes only by a render that applies the actions
\* dispatched to st
ChangesOnlyByOwnActions(st) ==
    state'[st] # state[st] =>
        /\ queue[st] # <<>>
        /\ state'[st] = FoldActions(kind, state[st], queue[st])

\* C31: store instances are independent: an action dispatched to one store
\* never changes the state of another store, also when both were built from
\* the same initialState with the same reducer (the store of App and the
\* store of the Messenger component).
C31_StoresIndependent ==
    [][\A st \in StoreNames : ChangesOnlyByOwnActions(st)]_vars

----------------------------------------------------------------------------
(* Properties of the counter stores *)

\* how many of the actions as[from..Len(as)] have the type
CountType(as, from, type) == Cardinality({i \in from..Len(as) : as[i].type = type})

\* the position of the last set_count action of as, 0 when there is none
LastSet(as) ==
    LET sets == {i \in 1..Len(as) : as[i].type = "set_count"}
    IN  IF sets = {} THEN 0 ELSE CHOOSE i \in sets : \A j \in sets : j <= i

\* C19: the count reducer adds 1 for an increment, subtracts 1 for a
\* decrement and takes the value of a set: the count is the last value set
\* (0 when none was) plus the increments minus the decrements applied since,
\* so i increments and d decrements from {count: 0} end at i - d; the age
\* reducer adds 1 per increment.
C19_CountIsIncrementsMinusDecrements ==
    LET done == SubSeq(hist, 1, applied)
    IN  /\ kind = "count" =>
              LET last == LastSet(done)
                  base == IF last = 0 THEN InitialOf(kind).count ELSE done[last].value
              IN  state.count = base + CountType(done, last + 1, "incremented_count")
                                     - CountType(done, last + 1, "decremented_count")
        /\ (kind = "age" /\ CountType(done, 1, "incremented_age") = applied) =>
              state.age = InitialAge + applied

C19_Witness ==
    /\ kind = "count"
    /\ applied = 4
    /\ hist = << [type |-> "incremented_count"], [type |-> "incremented_count"],
                 [type |-> "incremented_count"], [type |-> "decremented_count"] >>
    /\ state = [count |-> 2]


\* counts the store may have held before the last two actions
CountsBefore == (0 - MaxId)..MaxId

\* C37: counter reducer inverses: from any count, an increment followed by a
\* decrement, or a decrement followed by an increment, returns the original
\* count; and set {value} followed by any action gives the same state
\* whatever the count was before the set.
C37_CounterInverses ==
    (kind = "count" /\ mounted /\ applied >= 2) =>
        LET a == hist[applied - 1]
            b == hist[applied]
            before == FoldActions(kind, InitialOf(kind), SubSeq(hist, 1, applied - 2))
        IN  /\ {a.type, b.type} = {"incremented_count", "decremented_count"} =>
                  state = before
            /\ a.type = "set_count" =>
                  \A c \in CountsBefore :
                     FoldActions(kind, [count |-> c], <<a, b>>) = state

C37_Witness ==
    /\ kind = "count"
    /\ mounted
    /\ applied = 4
    /\ hist[1].type = "set_count"
    /\ hist[1].value > 0
    /\ hist[2].type = "incremented_count"
    /\ hist[3].type = "decremented_count"
    /\ hist[4].type = "incremented_count"
    /\ state.count = hist[1].value + 1

----------------------------------------------------------------------------
(* The task reducers called as functions, on bounded arguments *)

SeqsUpTo(S, n) == UNION {[1..m -> S] : m \in 0..n}

\* task records a list may hold
InputTasks == {[id |-> i, text |-> "y", done |-> d] : i \in ActionIds, d \in BOOLEAN}

TaskLists == SeqsUpTo(InputTasks, MaxLen)

\* the task actions, and "changed" actions whose task record has no done field
CallActions ==
    ActionsOf("tasks")
    \cup {[type |-> "changed", task |-> [id |-> i, text |-> t]] : i \in ActionIds, t \in Texts}

\* messenger states a call may be given
MessengerStates ==
    {[selectedId |-> c, messages |-> m] : c \in ContactIds, m \in [ContactIds -> {"", "y"}]}

InitReducer ==
    /\ kind \in {"tasks", "messenger"}
    /\ state = initialTasks
    /\ queue = <<>>
    /\ mounted = TRUE
    /\ error = NoError
    /\ hist = <<>>
    /\ applied = 0
    /\ dropped = 0
    /\ renders = 0
    /\ handed = <<>>
    /\ rWhich = "none"
    /\ \/ kind = "tasks" /\ rIn \in TaskLists /\ nextId \in NextIdInit..(MaxId + 1)
       \/ kind = "messenger" /\ rIn \in MessengerStates /\ nextId = NextIdInit
    /\ rAction = [type |-> "none"]
    /\ rOut = Ok(<<>>)
    /\ seen = <<>>
    /\ reentered = 0

\* tasksReducer(tasks, action) of TasksContext.jsx
CallTasksReducer(action) ==
    /\ kind = "tasks"
    /\ rWhich = "none"
    /\ rWhich' = "TasksContext"
    /\ rAction' = action
    /\ rOut' = tasksReducer(rIn, action)
    /\ rIn' = tasksReducerLeaves(rIn, action)
    /\ UNCHANGED <<storeVars, nextId, handed, seen, reentered>>

\* tasksReducer(tasks, action) of App.jsx
CallTasksReducerApp(action) ==
    /\ kind = "tasks"
    /\ rWhich = "none"
    /\ rWhich' = "App"
    /\ rAction' = action
    /\ LET r == tasksReducerApp(rIn, action, nextId)
       IN  /\ rOut' = IF r.ok THEN Ok(r.val) ELSE Throw(r.err)
           /\ nextId' = r.nextId
    /\ rIn' = tasksReducerLeaves(rIn, action)
    /\ UNCHANGED <<storeVars, handed, seen, reentered>>

\* messengerReducer(state, action)
CallMessengerReducer(action) ==
    /\ kind = "messenger"
    /\ rWhich = "none"
    /\ rWhich' = "Messenger"
    /\ rAction' = action
    /\ rOut' = messengerReducer(rIn, action)
    /\ rIn' = messengerReducerLeaves(rIn, action)
    /\ UNCHANGED <<storeVars, nextId, handed, seen, reentered>>

NextReducer ==
    \/ \E action \in CallActions : CallTasksReducer(action)
    \/ \E action \in CallActions : CallTasksReducerApp(action)
    \/ \E action \in ActionsOf("messenger") : CallMessengerReducer(action)

SpecReducer == InitReducer /\ [][NextReducer]_vars

----------------------------------------------------------------------------
(* The three task components, driven by their own handlers *)

Apps == {"TasksProvider", "TaskAppOne", "TaskApp"}

\* the render of TaskAppOne: the queued updaters run in order through the
\* reducer of App.jsx, which advances nextId
RECURSIVE ProcessQueueApp(_, _, _)
ProcessQueueApp(s, q, n) ==
    IF q = <<>> THEN [ok |-> TRUE, val |-> s, nextId |-> n]
    ELSE LET r == tasksReducerApp(s, Head(q), n)
         IN  IF r.ok THEN ProcessQueueApp(r.val, Tail(q), r.nextId)
             ELSE [ok |-> FALSE, err |-> r.err, nextId |-> r.nextId]

\* what the user can turn a listed task into: the checkbox toggled, or the
\* text typed over
Edits(task) ==
    {[task EXCEPT !.done = ~task.done]} \cup {[task EXCEPT !.text = t] : t \in Texts}

InitUI ==
    /\ kind \in Apps
    /\ state = IF kind = "TasksProvider" THEN initialTasks ELSE initialTasksApp
    /\ queue = <<>>
    /\ mounted = TRUE
    /\ error = NoError
    /\ hist = <<>>
    /\ applied = 0
    /\ dropped = 0
    /\ renders = 0
    /\ nextId = NextIdInit
    /\ handed = <<>>
    /\ NoCall
    /\ seen = <<>>
    /\ reentered = 0

\* a handler that dispatches action through the store's dispatch
Dispatches(action) ==
    /\ Len(hist) < MaxDispatch
    /\ queue' = dispatch(queue, state, kind, action).queue
    /\ hist' = Append(hist, action)

\* a handler of TaskApp that calls setTasks(value)
SetsTasks(value) ==
    /\ Len(hist) < MaxDispatch
    /\ queue' = Append(queue, [value |-> value])
    /\ hist' = Append(hist, [value |-> value])

\* AddTask: the Add button under a TasksProvider
AddTaskClick(text) ==
    /\ kind = "TasksProvider"
    /\ Dispatches([type |-> "added", id |-> nextId, text |-> text])
    /\ nextId' = nextId + 1
    /\ handed' = Append(handed, nextId)
    /\ UNCHANGED <<kind, state, mounted, error, applied, dropped, renders,
                   callVars, seen, reentered>>

\* Task: the checkbox and the text input of a listed task
TaskChange(i, task) ==
    /\ kind = "TasksProvider"
    /\ i \in 1..Len(state)
    /\ task \in Edits(state[i])
    /\ Dispatches([type |-> "changed", task |-> task])
    /\ UNCHANGED <<kind, state, mounted, error, applied, dropped, renders, nextId,
                   handed, callVars, seen, reentered>>

\* Task: the Delete button of a listed task
TaskDelete(i) ==
    /\ kind = "TasksProvider"
    /\ i \in 1..Len(state)
    /\ Dispatches([type |-> "deleted", id |-> state[i].id])
    /\ UNCHANGED <<kind, state, mounted, error, applied, dropped, renders, nextId,
                   handed, callVars, seen, reentered>>

\* TaskAppOne.handleAddTask(text)
TaskAppOneHandleAddTask(text) ==
    /\ kind = "TaskAppOne"
    /\ Dispatches([type |-> "added", id |-> nextId, text |-> text])
    /\ nextId' = nextId + 1
    /\ handed' = Append(handed, nextId)
    /\ UNCHANGED <<kind, state, mounted, error, applied, dropped, renders,
                   callVars, seen, reentered>>

\* TaskAppOne.handleChangeTask(task)
TaskAppOneHandleChangeTask(i, task) ==
    /\ kind = "TaskAppOne"
    /\ i \in 1..Len(state)
    /\ task \in Edits(state[i])
    /\ Dispatches([type |-> "changed", task |-> task])
    /\ UNCHANGED <<kind, state, mounted, error, applied, dropped, renders, nextId,
                   handed, callVars, seen, reentered>>

\* a handleDeleteTask whose dispatch filters the tasks at once
TaskAppOneHandleDeleteTaskApplying(i) ==
    /\ kind = "TaskAppOne"
    /\ i \in 1..Len(state)
    /\ Len(hist) < MaxDispatch
    /\ queue = <<>>
    /\ state' = tasksReducerApp(state, [type |-> "deleted", id |-> state[i].id], nextId).val
    /\ hist' = Append(hist, [type |-> "deleted", id |-> state[i].id])
    /\ applied' = applied + 1
    /\ UNCHANGED <<kind, queue, mounted, error, dropped, renders, nextId, handed, callVars,
                   seen, reentered>>

\* TaskAppOne.handleDeleteTask(taskId)
TaskAppOneHandleDeleteTask(i) ==
    /\ kind = "TaskAppOne"
    /\ i \in 1..Len(state)
    /\ Dispatches([type |-> "deleted", id |-> state[i].id])
    /\ UNCHANGED <<kind, state, mounted, error, applied, dropped, renders, nextId,
                   handed, callVars, seen, reentered>>

\* TaskApp.handleAddTask(text): the new list is built from the tasks of the
\* render the handler belongs to
TaskAppHandleAddTask(text) ==
    /\ kind = "TaskApp"
    /\ SetsTasks(state \o << [id |-> nextId, text |-> text, done |-> FALSE] >>)
    /\ nextId' = nextId + 1
    /\ handed' = Append(handed, nextId)
    /\ UNCHANGED <<kind, state, mounted, error, applied, dropped, renders,
                   callVars, seen, reentered>>

\* TaskApp.handleChangeTask(task)
TaskAppHandleChangeTask(i, task) ==
    /\ kind = "TaskApp"
    /\ i \in 1..Len(state)
    /\ task \in Edits(state[i])
    /\ SetsTasks([j \in 1..Len(state) |-> IF state[j].id = task.id THEN task ELSE state[j]])
    /\ UNCHANGED <<kind, state, mounted, error, applied, dropped, renders, nextId,
                   handed, callVars, seen, reentered>>

\* TaskApp.handleDeleteTask(taskId)
TaskAppHandleDeleteTask(i) ==
    /\ kind = "TaskApp"
    /\ i \in 1..Len(state)
    /\ SetsTasks(SelectSeq(state, LAMBDA t : t.id # state[i].id))
    /\ UNCHANGED <<kind, state, mounted, error, applied, dropped, renders, nextId,
                   handed, callVars, seen, reentered>>

\* the render of the TasksProvider after some dispatches
RenderTasksProvider ==
    /\ kind = "TasksProvider"
    /\ mounted
    /\ queue # <<>>
    /\ LET r == ProcessQueue("tasks", state, queue, 0)
       IN  /\ r.ok
           /\ state' = r.val
           /\ applied' = applied + r.n
    /\ queue' = <<>>
    /\ renders' = renders + 1
    /\ seen' = Rerender(seen, kind, state, state')
    /\ UNCHANGED <<kind, mounted, error, hist, dropped, nextId, handed,
                   callVars, reentered>>

\* the render of TaskAppOne after some dispatches
RenderTaskAppOne ==
    /\ kind = "TaskAppOne"
    /\ mounted
    /\ queue # <<>>
    /\ LET r == ProcessQueueApp(state, queue, nextId)
       IN  /\ r.ok
           /\ state' = r.val
           /\ nextId' = r.nextId
    /\ applied' = applied + Len(queue)
    /\ queue' = <<>>
    /\ renders' = renders + 1
    /\ seen' = Rerender(seen, kind, state, state')
    /\ UNCHANGED <<kind, mounted, error, hist, dropped, handed, callVars, reentered>>

\* the render of TaskApp after some setTasks calls: the last value set is the
\* state, and the function body runs let nextId = 3 again
RenderTaskApp ==
    /\ kind = "TaskApp"
    /\ mounted
    /\ queue # <<>>
    /\ state' = queue[Len(queue)].value
    /\ nextId' = NextIdInit
    /\ applied' = applied + Len(queue)
    /\ queue' = <<>>
    /\ renders' = renders + 1
    /\ seen' = Rerender(seen, kind, state, state')
    /\ UNCHANGED <<kind, mounted, error, hist, dropped, handed, callVars, reentered>>

NextUI ==
    \/ \E text \in Texts : AddTaskClick(text)
    \/ \E i \in 1..Len(state) : \E task \in Edits(state[i]) :
          TaskChange(i, task)
    \/ \E i \in 1..Len(state) : TaskDelete(i)
    \/ \E text \in Texts : TaskAppOneHandleAddTask(text)
    \/ \E i \in 1..Len(state) : \E task \in Edits(state[i]) :
          TaskAppOneHandleChangeTask(i, task)
    \/ \E i \in 1..Len(state) : TaskAppOneHandleDeleteTask(i)
    \/ \E text \in Texts : TaskAppHandleAddTask(text)
    \/ \E i \in 1..Len(state) : \E task \in Edits(state[i]) :
          TaskAppHandleChangeTask(i, task)
    \/ \E i \in 1..Len(state) : TaskAppHandleDeleteTask(i)
    \/ RenderTasksProvider
    \/ RenderTaskAppOne
    \/ RenderTaskApp

SpecUI == InitUI /\ [][NextUI]_vars

----------------------------------------------------------------------------
(* Properties of the task reducers *)

HasId(tasks, id) == \E i \in 1..Len(tasks) : tasks[i].id = id

CountId(tasks, id) == Cardinality({i \in 1..Len(tasks) : tasks[i].id = id})

\* C6: for an added {id, text} action a task reducer returns the input
\* sequence with the one record {id: action.id, text: action.text,
\* done: false} appended, every earlier task unchanged and in place.
C6_AddedAppendsActionRecord ==
    (rWhich # "none" /\ rAction.type = "added") =>
        rOut = Ok(Append(rIn, [id |-> rAction.id, text |-> rAction.text, done |-> FALSE]))

\* C7 as stated: added {id, text} with an id already in the sequence fails
\* with DuplicateId (and so yields no new sequence).
C7_DuplicateIdRejected ==
    (rWhich = "TasksContext" /\ rAction.type = "added" /\ HasId(rIn, rAction.id)) =>
        rOut = Throw("DuplicateId")

\* C7 amended: added {id, text} with an id already in the sequence does not
\* fail: the record is appended as for any other id, so the result holds one
\* more task with that id than the input did.
C7_DuplicateIdAppended ==
    (rWhich = "TasksContext" /\ rAction.type = "added" /\ HasId(rIn, rAction.id)) =>
        /\ rOut.ok
        /\ rOut.val = Append(rIn, [id |-> rAction.id, text |-> rAction.text, done |-> FALSE])
        /\ CountId(rOut.val, rAction.id) = CountId(rIn, rAction.id) + 1

C7_Witness ==
    /\ rWhich = "TasksContext"
    /\ rAction.type = "added"
    /\ HasId(rIn, rAction.id)
    /\ rOut.ok
    /\ CountId(rOut.val, rAction.id) >= 2

\* C9: changed {task} replaces every task whose id equals task.id by the
\* action's record as it is (no field of the old record is kept), leaves every
\* other task unchanged, and keeps the length and the order of the sequence.
C9_ChangedReplacesVerbatim ==
    (rWhich # "none" /\ rAction.type = "changed") =>
        /\ rOut.ok
        /\ Len(rOut.val) = Len(rIn)
        /\ \A i \in 1..Len(rIn) :
              rOut.val[i] = IF rIn[i].id = rAction.task.id THEN rAction.task ELSE rIn[i]

C9_Witness ==
    /\ rWhich = "TasksContext"
    /\ rAction.type = "changed"
    /\ "done" \notin DOMAIN rAction.task
    /\ CountId(rIn, rAction.task.id) = 2
    /\ Len(rIn) = 3
    /\ rOut.ok
    /\ CountId(rOut.val, rAction.task.id) = 2
    /\ \E i \in 1..3 : rOut.val[i] = rAction.task /\ rIn[i].done
    /\ \E i \in 1..3 : rOut.val[i] = rIn[i]

\* C10: changed {task} with a task.id no task of the sequence has returns a
\* sequence equal to the input.
C10_ChangedAbsentIdIsNoOp ==
    (rWhich # "none" /\ rAction.type = "changed" /\ ~HasId(rIn, rAction.task.id)) =>
        rOut = Ok(rIn)

C10_Witness ==
    /\ rWhich = "TasksContext"
    /\ rAction.type = "changed"
    /\ ~HasId(rIn, rAction.task.id)
    /\ Len(rIn) >= 2
    /\ rOut = Ok(rIn)

\* the number of tasks with the id among the first n tasks
CountIdBefore(tasks, id, n) == Cardinality({j \in 1..n : tasks[j].id = id})

\* C11: deleted {id} removes the tasks with that id and leaves every other
\* task unchanged and in order; with no task of that id the result equals the
\* input.
C11_DeletedRemovesOnlyThatId ==
    (rWhich # "none" /\ rAction.type = "deleted") =>
        /\ rOut.ok
        /\ ~HasId(rOut.val, rAction.id)
        /\ Len(rOut.val) = Len(rIn) - CountId(rIn, rAction.id)
        /\ \A i \in 1..Len(rIn) :
              rIn[i].id # rAction.id =>
                  rOut.val[i - CountIdBefore(rIn, rAction.id, i)] = rIn[i]
        /\ (~HasId(rIn, rAction.id) => rOut.val = rIn)

C11_Witness ==
    /\ rWhich = "TasksContext"
    /\ rAction.type = "deleted"
    /\ Len(rIn) = 3
    /\ rIn[2].id = rAction.id
    /\ rOut = Ok(<<rIn[1], rIn[3]>>)

CallResult(which, s, action, n) ==
    CASE which = "TasksContext" -> tasksReducer(s, action)
      [] which = "App" ->
           LET r == tasksReducerApp(s, action, n)
           IN  IF r.ok THEN Ok(r.val) ELSE Throw(r.err)
      [] which = "Messenger" -> messengerReducer(s, action)

\* C21: every reducer is a pure, deterministic function of (state, action):
\* a call changes no state outside its return value (the id counter is
\* neither read nor written), so a call with the same state and action
\* returns the same result whatever the counter holds.
C21_ReducersArePure ==
    [][rWhich' # rWhich =>
          /\ nextId' = nextId
          /\ \A n \in NextIdInit..(MaxId + 1) :
                CallResult(rWhich', rIn, rAction', n) = rOut']_vars

\* the set of ids in a task sequence
IdSet(tasks) == {tasks[i].id : i \in 1..Len(tasks)}

\* C27: changed and deleted never introduce a task id: after either action
\* the set of ids in the task sequence is a subset of the set of ids before
\* it, for the reducer of either file.
C27_ChangedDeletedAddNoId ==
    (rWhich \in {"TasksContext", "App"} /\ rAction.type \in {"changed", "deleted"}) =>
        /\ rOut.ok
        /\ IdSet(rOut.val) \subseteq IdSet(rIn)

C27_Witness ==
    /\ rWhich = "TasksContext"
    /\ rAction.type = "changed"
    /\ rAction.task.id \in IdSet(rIn)
    /\ Len(rIn) = 3
    /\ rOut.val # rIn
    /\ IdSet(rOut.val) = IdSet(rIn)

\* C33: after a deleted {id} action no task with that id remains in the
\* sequence, whatever the input was, also an input that holds several tasks
\* with that id (reducer of either file).
C33_DeletedLeavesNoneWithId ==
    (rWhich \in {"TasksContext", "App"} /\ rAction.type = "deleted") =>
        /\ rOut.ok
        /\ \A i \in 1..Len(rOut.val) : rOut.val[i].id # rAction.id

C33_Witness ==
    /\ rWhich = "App"
    /\ rAction.type = "deleted"
    /\ Len(rIn) = 3
    /\ rIn[1].id = rAction.id
    /\ rIn[3].id = rAction.id
    /\ rIn[2].id # rAction.id
    /\ rOut = Ok(<<rIn[2]>>)

\* C35: length accounting of the task reducer: an added that returns makes
\* the sequence exactly one longer, changed leaves its length as it is, and
\* deleted never makes it longer: it makes it shorter by the number of tasks
\* with the given id.
C35_LengthAccounting ==
    (rWhich = "TasksContext" /\ rOut.ok) =>
        /\ rAction.type = "added" => Len(rOut.val) = Len(rIn) + 1
        /\ rAction.type = "changed" => Len(rOut.val) = Len(rIn)
        /\ rAction.type = "deleted" =>
              /\ Len(rOut.val) <= Len(rIn)
              /\ Len(rOut.val) = Len(rIn) - CountId(rIn, rAction.id)

C35_Witness ==
    /\ rWhich = "TasksContext"
    /\ rAction.type = "added"
    /\ HasId(rIn, rAction.id)
    /\ Len(rIn) = 2
    /\ rOut.ok
    /\ Len(rOut.val) = 3

----------------------------------------------------------------------------
(* Properties of the messenger reducer called as a function *)

\* the drafts an earlier edit may have left
EarlierDrafts == {"", "x", "y"}

\* C36: messenger reducer idempotence and last write wins: sent_message
\* applied to its own result returns that result again, so does
\* changed_selection {contactId: c}; and edited_message {m2} returns the same
\* state whether or not an edited_message {m1} was applied just before it.
C36_IdempotentLastWriteWins ==
    (rWhich = "Messenger" /\ rOut.ok) =>
        /\ rAction.type \in {"sent_message", "changed_selection"} =>
              messengerReducer(rOut.val, rAction) = rOut
        /\ rAction.type = "edited_message" =>
              \A m1 \in EarlierDrafts :
                 messengerReducer(
                    messengerReducer(rIn, [type |-> "edited_message", message |-> m1]).val,
                    rAction) = rOut

C36_Witness ==
    /\ rWhich = "Messenger"
    /\ rAction.type = "edited_message"
    /\ rIn.messages[rIn.selectedId] = "y"
    /\ rOut.ok
    /\ rOut.val.messages[rIn.selectedId] = rAction.message
    /\ rOut.val # rIn
    /\ messengerReducer(rIn, [type |-> "edited_message", message |-> "y"]).val = rIn

----------------------------------------------------------------------------
(* Properties of the task components *)

DistinctIds(tasks) ==
    \A i, j \in 1..Len(tasks) : i # j => tasks[i].id # tasks[j].id

StrictlyIncreasing(ids) ==
    \A i, j \in 1..Len(ids) : i < j => ids[i] < ids[j]

\* C8: in every reachable state of a task component driven by its own
\* handlers the task ids are pairwise distinct, and the ids its add handler
\* has handed out are strictly increasing.
C8_IdsDistinctAndIncreasing ==
    /\ DistinctIds(state)
    /\ StrictlyIncreasing(handed)

\* the ids a sequence of actions deletes, and the ids it adds, in order
DeletedIds(as) == {as[i].id : i \in {j \in 1..Len(as) : as[j].type = "deleted"}}

AddedIds(as) ==
    LET adds == SelectSeq(as, LAMBDA a : a.type = "added")
    IN  [i \in 1..Len(adds) |-> adds[i].id]

Ids(tasks) == [i \in 1..Len(tasks) |-> tasks[i].id]

PositionOf(ids, id) == CHOOSE i \in 1..Len(ids) : ids[i] = id

\* C12: whatever added, changed and deleted actions the task store has
\* applied, any two tasks (the seeded ones and the added ones, in the order
\* they came to exist) that no deleted action targeted and that are both in
\* the list stand in the same relative order as before.
C12_OrderPreserved ==
    kind = "TasksProvider" =>
        LET done == SubSeq(hist, 1, applied)
            before == Ids(initialTasks) \o AddedIds(done)
            after == Ids(state)
            kept == {id \in {before[i] : i \in 1..Len(before)} :
                        id \notin DeletedIds(done) /\ \E i \in 1..Len(after) : after[i] = id}
        IN  \A a, b \in kept :
               PositionOf(before, a) < PositionOf(before, b)
                   => PositionOf(after, a) < PositionOf(after, b)

C12_Witness ==
    /\ kind = "TasksProvider"
    /\ applied = 3
    /\ \E i \in 1..3 : hist[i] = [type |-> "deleted", id |-> 0]
    /\ \E i \in 1..3 : hist[i].type = "changed"
    /\ Ids(state) = <<1, 2, 3>>

\* the state that the latest re-render of reader was given
LastSeenBy(reader) ==
    LET at == {i \in 1..Len(seen) : seen[i].reader = reader}
    IN  seen[CHOOSE i \in at : \A j \in at : j <= i].value

BothWritersApplied ==
    /\ \E i \in 1..applied : hist[i].type = "added"
    /\ \E i \in 1..applied : hist[i].type \in {"changed", "deleted"}

\* C30: all readers and writers under one TasksProvider share a single store:
\* the actions dispatched by AddTask and by the Tasks are applied, in dispatch
\* order, to the one task state, and once a render has committed every reader
\* (the provider and TaskList) holds that same resulting state.
C30_OneStoreUnderProvider ==
    (kind = "TasksProvider" /\ mounted) =>
        /\ state = FoldActions("tasks", initialTasks, SubSeq(hist, 1, applied))
        /\ renders > 0 =>
             \A r \in ReaderNames :
                /\ \E i \in 1..Len(seen) : seen[i].reader = r
                /\ LastSeenBy(r) = state

C30_Witness ==
    /\ kind = "TasksProvider"
    /\ BothWritersApplied
    /\ renders = 2
    /\ state # initialTasks
    /\ LastSeenBy("TaskList") = state
    /\ LastSeenBy("TasksProvider") = state

\* C28: dispatch(action) does not change the state value that the running
\* event handler holds: the action is queued behind the pending ones, and the
\* state changes only at the next render, to the result of running the
\* reducer over the whole queue.
C28_QueuedUntilNextRender ==
    [][/\ hist' # hist =>
            /\ state' = state
            /\ renders' = renders
            /\ queue' = Append(queue, hist'[Len(hist')])
       /\ (kind = "TasksProvider" /\ state' # state) =>
            /\ renders' = renders + 1
            /\ state' = FoldActions("tasks", state, queue)
       /\ (kind = "TaskAppOne" /\ state' # state) =>
            /\ renders' = renders + 1
            /\ state' = ProcessQueueApp(state, queue, nextId).val]_vars

C28_Witness ==
    /\ kind = "TaskAppOne"
    /\ renders = 0
    /\ Len(queue) = 2
    /\ queue[1].type = "deleted"
    /\ queue[2].type = "added"
    /\ state = initialTasksApp
    /\ ProcessQueueApp(state, queue, nextId).val # state

\* the task list the latest setTasks call asked for, the rendered one when none
\* is pending
LatestTasks == IF queue = <<>> THEN state ELSE queue[Len(queue)].value

\* value is what an add, change or delete handler makes of the list tasks
HandlerResultOn(tasks, value) ==
    \/ /\ Len(value) = Len(tasks) + 1
       /\ SubSeq(value, 1, Len(tasks)) = tasks
    \/ \E i \in 1..Len(tasks) : \E task \in Edits(tasks[i]) :
          value = [j \in 1..Len(tasks) |-> IF tasks[j].id = task.id THEN task ELSE tasks[j]]
    \/ \E i \in 1..Len(tasks) :
          value = SelectSeq(tasks, LAMBDA t : t.id # tasks[i].id)

\* C32: in the useState-based TaskApp every call of handleAddTask,
\* handleChangeTask or handleDeleteTask takes effect on the latest state: the
\* list it sets is built from the list the call before it set, also when that
\* list has not been rendered yet, so no call overwrites an earlier one.
C32_HandlersUseLatestState ==
    [][(kind = "TaskApp" /\ hist' # hist) =>
          HandlerResultOn(LatestTasks, hist'[Len(hist')].value)]_vars

=============================================================================
